---- MODULE Spec2Model ----
(***************************************************************************)
(* State-machine model of R2R/scripts/r2r_folder_upload.py: the workflow   *)
(* run_complete_workflow of R2RFolderUploader, with the asyncio tasks of   *)
(* upload_files_concurrently (one upload_file task per discovered file,    *)
(* one extract_entities task per successful upload) interleaved at their   *)
(* suspension points.  The remote R2R service is the environment: every    *)
(* answer it gives is a nondeterministic input, recorded when received.    *)
(*                                                                         *)
(* asyncio runs one task at a time; a task is only suspended at an await   *)
(* that really blocks (a semaphore with no permit, run_in_executor,        *)
(* as_completed, gather).  results_lock is never held across an await, so  *)
(* acquiring it never suspends: the code from the return of a service call *)
(* to the end of the handler is one atomic step and one action here.       *)
(***************************************************************************)
EXTENDS Integers, Sequences, FiniteSets, TLC

\* ------------------------------------------------------------------ bounds
MaxFiles == 2       \* at most this many supported files are discovered
MaxCount == 2       \* largest number of entities / relationships in a response
MaxCalls == 3       \* create_collection_if_needed is called at most this often
                    \* when it is called on its own
MaxRequests == 2    \* LLM calls reported to the logger
MaxMessages == 2    \* messages of one LLM call
MaxHookCalls == 2   \* times the pre-call hook runs for one LLM call (the
                    \* proxy may run the sync and the async hook)

FileIds == 1..MaxFiles

\* constructor arguments tried for max_concurrent_uploads / _extractions
UploadLimits == {1, 2, 8}
ExtractionLimits == {1, 5}
\* the pairs a full run is started with: uploads one at a time, extractions
\* one at a time under a wider upload limit, and neither limit reached
LimitPairs == {<<1, 5>>, <<2, 1>>, <<8, 5>>}

\* ----------------------------------------------------- service responses
\* documents.create: what the call returns or raises.
\*   "id"            returns a response carrying a (truthy) document id
\*   "no_id"         returns a response from which no document id can be read
\*   "exists"        raises, message contains "already exists"
\*   "error"         raises, any other message
\*   "kwarg"         raises, message contains "collection_ids" or
\*                   "unexpected keyword argument"
\*   "kwarg_exists"  raises, message contains both "collection_ids" and
\*                   "already exists"
UploadResponses == {"id", "no_id", "exists", "error", "kwarg", "kwarg_exists"}

Raises(resp) == resp \in {"exists", "error", "kwarg", "kwarg_exists"}
MentionsCollectionIds(resp) == resp \in {"kwarg", "kwarg_exists"}
MentionsAlreadyExists(resp) == resp \in {"exists", "kwarg_exists"}

\* documents.extract: the response object, or an exception.
\*   shape          "results": the response has a .results attribute;
\*                  "flat": it has none (counts, if any, are top-level)
\*   entities       Absent, or the length of the .entities list
\*   relationships  Absent, or the length of the .relationships list
\*   ack            the response has a .message attribute or its text
\*                  contains "success"
Absent == 0 - 1
ExtractResponse(raises, shape, entities, relationships, ack) ==
    [raises |-> raises, shape |-> shape, entities |-> entities,
     relationships |-> relationships, ack |-> ack]
\* the answers tried: an exception; counts under .results; explicit zero
\* counts with an acknowledgement; top-level counts of both kinds; top-level
\* relationships only; a bare acknowledgement (a message, no counts); an
\* bare acknowledgement under .results; an answer with neither counts nor
\* acknowledgement
ExtractResponses ==
    { ExtractResponse(TRUE, "flat", Absent, Absent, FALSE),
      ExtractResponse(FALSE, "results", MaxCount, MaxCount, FALSE),
      ExtractResponse(FALSE, "results", 0, 0, TRUE),
      ExtractResponse(FALSE, "flat", MaxCount, MaxCount, FALSE),
      ExtractResponse(FALSE, "flat", Absent, MaxCount, FALSE),
      ExtractResponse(FALSE, "flat", Absent, Absent, TRUE),
      ExtractResponse(FALSE, "results", Absent, Absent, TRUE),
      ExtractResponse(FALSE, "flat", Absent, Absent, FALSE) }
NoResponse == [raises |-> FALSE, shape |-> "pending", entities |-> Absent,
               relationships |-> Absent, ack |-> FALSE]

\* len(x) if x else 0, for an attribute that is present
LenOrZero(v) == IF v = Absent THEN 0 ELSE v

\* fault variant: no placeholder, the counts are left as read
Placeholder_CountsAsRead(counts, resp) == counts

\* the placeholder rule of extract_entities (lines 266-270)
Placeholder(counts, resp) ==
    IF counts[1] = 0 /\ counts[2] = 0 /\ resp.ack THEN <<1, counts[2]>> ELSE counts

\* entities_count, relationships_count as extract_entities computes them
CountEntities(resp) ==
    LET raw == IF resp.shape = "results"
               THEN <<LenOrZero(resp.entities), LenOrZero(resp.relationships)>>
               ELSE IF resp.entities # Absent THEN <<resp.entities, 0>>
               ELSE IF resp.relationships # Absent THEN <<0, resp.relationships>>
               ELSE <<0, 0>>
    IN  Placeholder(raw, resp)

\* ------------------------------------------------------- result records
NoDocument == 0                 \* document_id None
DocumentId(f) == f              \* the id the service assigns to file f

PendingResult(f) ==
    [file_path |-> f, upload_status |-> "pending", document_id |-> NoDocument,
     error |-> "None"]

\* fault variant: an "already exists" error is recorded as a failure
UploadResult_ExistsFails(f, resp) ==
    IF ~Raises(resp)
    THEN IF resp = "id"
         THEN [file_path |-> f, upload_status |-> "success",
               document_id |-> DocumentId(f), error |-> "None"]
         ELSE [file_path |-> f, upload_status |-> "failed",
               document_id |-> NoDocument, error |-> "Could not extract document ID"]
    ELSE [file_path |-> f, upload_status |-> "failed",
          document_id |-> NoDocument, error |-> resp]

\* fault variant: an answer without a document id counts as a success
UploadResult_MissingIdSucceeds(f, resp) ==
    IF ~Raises(resp)
    THEN [file_path |-> f, upload_status |-> "success",
          document_id |-> IF resp = "id" THEN DocumentId(f) ELSE NoDocument,
          error |-> "None"]
    ELSE IF MentionsAlreadyExists(resp)
         THEN [file_path |-> f, upload_status |-> "skipped",
               document_id |-> NoDocument, error |-> "Document already exists"]
         ELSE [file_path |-> f, upload_status |-> "failed",
               document_id |-> NoDocument, error |-> resp]

\* the result dict upload_file ends with, given the response that decided it
UploadResult(f, resp) ==
    IF ~Raises(resp)
    THEN IF resp = "id"
         THEN [file_path |-> f, upload_status |-> "success",
               document_id |-> DocumentId(f), error |-> "None"]
         ELSE [file_path |-> f, upload_status |-> "failed",
               document_id |-> NoDocument, error |-> "Could not extract document ID"]
    ELSE IF MentionsAlreadyExists(resp)
         THEN [file_path |-> f, upload_status |-> "skipped",
               document_id |-> NoDocument, error |-> "Document already exists"]
         ELSE [file_path |-> f, upload_status |-> "failed",
               document_id |-> NoDocument, error |-> resp]

\* fault variant: the outcome "no document id" is not appended anywhere
RecordUpload_DropsMissingId(stats, result) ==
    CASE result.upload_status = "success" ->
            [stats EXCEPT !.uploaded = Append(@, result)]
      [] result.upload_status = "skipped" ->
            [stats EXCEPT !.skipped = Append(@, result)]
      [] result.error = "Could not extract document ID" -> stats
      [] OTHER ->
            [stats EXCEPT !.failed = Append(@, result)]

\* the append to upload_stats made under results_lock
RecordUpload(stats, result) ==
    CASE result.upload_status = "success" ->
            [stats EXCEPT !.uploaded = Append(@, result)]
      [] result.upload_status = "skipped" ->
            [stats EXCEPT !.skipped = Append(@, result)]
      [] OTHER ->
            [stats EXCEPT !.failed = Append(@, result)]

\* the result dict extract_entities ends with
ExtractionResult(info, resp) ==
    IF resp.raises
    THEN [document_id |-> info.document_id, file_path |-> info.file_path,
          extraction_status |-> "failed", entities_count |-> 0,
          relationships_count |-> 0]
    ELSE [document_id |-> info.document_id, file_path |-> info.file_path,
          extraction_status |-> "success",
          entities_count |-> CountEntities(resp)[1],
          relationships_count |-> CountEntities(resp)[2]]

\* fault variant: the totals are overwritten instead of added to
RecordExtraction_OverwritesTotals(res, result) ==
    IF result.extraction_status = "success"
    THEN [res EXCEPT !.total_entities = result.entities_count,
                     !.total_relationships = result.relationships_count,
                     !.successful = Append(@, result)]
    ELSE [res EXCEPT !.failed = Append(@, result)]

\* fault variant: the entity count is added to both totals
RecordExtraction_AddsEntitiesTwice(res, result) ==
    IF result.extraction_status = "success"
    THEN [res EXCEPT !.total_entities = @ + result.entities_count,
                     !.total_relationships = @ + result.entities_count,
                     !.successful = Append(@, result)]
    ELSE [res EXCEPT !.failed = Append(@, result)]

\* fault variant: a failed extraction resets the totals
RecordExtraction_FailureResetsTotals(res, result) ==
    IF result.extraction_status = "success"
    THEN [res EXCEPT !.total_entities = @ + result.entities_count,
                     !.total_relationships = @ + result.relationships_count,
                     !.successful = Append(@, result)]
    ELSE [res EXCEPT !.total_entities = 0,
                     !.total_relationships = 0,
                     !.failed = Append(@, result)]

\* the update of extraction_results made under results_lock
RecordExtraction(res, result) ==
    IF result.extraction_status = "success"
    THEN [res EXCEPT !.total_entities = @ + result.entities_count,
                     !.total_relationships = @ + result.relationships_count,
                     !.successful = Append(@, result)]
    ELSE [res EXCEPT !.failed = Append(@, result)]

\* fault variant: every upload that was not skipped is extracted
ShouldExtract_NotSkipped(result) == result.upload_status # "skipped"

\* fault variant: every finished upload is extracted
ShouldExtract_Always(result) == TRUE

\* the test of line 324 that decides whether an extraction is created
ShouldExtract(result) ==
    result.upload_status = "success" /\ result.document_id # NoDocument

\* ------------------------------------------------ QwenNoThinkLogger: data
CallSlots == 1..MaxRequests

\* kwargs['litellm_call_id'] is missing or empty
NoCallId == 0

\* a message dict; content is the number of times its text starts with
\* "/no_think "
Messages == [role : {"user", "system"}, content : {0, 1}]

Conversations == UNION {[1..n -> Messages] : n \in 0..MaxMessages}

\* what kwargs['additional_args']['complete_input_dict'] is for the hook:
\*   not_dict     additional_args or complete_input_dict is not a dict
\*   no_messages  a dict without 'messages' (also when additional_args or
\*                complete_input_dict is missing: the defaults are {})
\*   own          a dict whose 'messages' is a list of its own
\*   shared       a dict whose 'messages' is the list, or holds the message
\*                dicts, passed as the messages argument
InputShapes == {"not_dict", "no_messages", "own", "shared"}

\* complete_input_dict['prompt']: missing, a text without a user turn, a
\* text with user turns, a text that contains "/no_think"
Prompts == {"absent", "plain", "user_turns", "no_think"}

\* str.startswith('/no_think') on the content of a message
StartsWithNoThink(message) == message.content >= 1

\* one loop over a message list: user messages that start with the prefix
\* are passed over, the first one that does not is prefixed and ends the loop
PrefixNext(messages) ==
    LET users == {i \in DOMAIN messages :
                    /\ messages[i].role = "user"
                    /\ ~StartsWithNoThink(messages[i])}
    IN  IF users = {} THEN messages
        ELSE LET i == CHOOSE u \in users : \A v \in users : u <= v
             IN  [messages EXCEPT ![i].content = @ + 1]

\* lines 49-58 on complete_input_dict['prompt']
PrefixPrompt(prompt) == IF prompt = "user_turns" THEN "no_think" ELSE prompt

\* the effect of log_pre_api_call on the arguments of a call. Line 39
\* rebinds the name messages to complete_input_dict's list ([] if it has
\* none) whenever complete_input_dict is a dict, and the loop of lines 61-66
\* then runs over that list.
PreApiCall(call) ==
    IF ~call.fast THEN call
    ELSE CASE call.input = "not_dict" ->
                [call EXCEPT !.messages = PrefixNext(@)]
           [] call.input = "no_messages" ->
                [call EXCEPT !.prompt = PrefixPrompt(@)]
           [] call.input = "own" ->
                [call EXCEPT !.input_messages = PrefixNext(PrefixNext(@)),
                             !.prompt = PrefixPrompt(@)]
           [] call.input = "shared" ->
                [call EXCEPT !.messages = PrefixNext(PrefixNext(@)),
                             !.prompt = PrefixPrompt(@)]

\* a slot of calls that stands for no LLM call
NoCall ==
    [phase |-> "unused", pre_calls |-> 0, fast |-> FALSE,
     call_id |-> NoCallId, input |-> "not_dict", prompt |-> "absent",
     messages |-> <<>>, input_messages |-> <<>>, original |-> <<>>]

\* an LLM call the proxy is about to report, with the arguments it passes
\* to the hooks
NewCall(fast, call_id, input, prompt, messages) ==
    [phase |-> "new", pre_calls |-> 0, fast |-> fast, call_id |-> call_id,
     input |-> input, prompt |-> prompt, messages |-> messages,
     input_messages |-> IF input = "own" THEN messages ELSE <<>>,
     original |-> messages]

\* ------------------------------------------------------------------ state
VARIABLES
    wf,                         \* position of main / run_complete_workflow
    status,                     \* result['status'] of run_complete_workflow
    exit_code,                  \* argument of sys.exit, -1 while running
    files,                      \* the discovered files (sorted list 1..n)
    collection,                 \* the service's collection of the given name
    list_calls,                 \* client.collections.list calls so far
    create_collection_calls,    \* client.collections.create calls so far
    collection_id,              \* collection_id of upload_files_concurrently
    max_concurrent_uploads,
    max_concurrent_extractions,
    upload_semaphore,           \* free permits
    extraction_semaphore,       \* free permits
    upload_stats,
    extraction_results,
    up,                         \* position of each upload_file task
    upload_result,              \* the result dict of each upload_file task
    create_response,            \* the documents.create answer that decided
                                \* each file's outcome
    done_queue,                 \* as_completed: finished, not yet taken
    remaining,                  \* as_completed: results still to be taken
    successful_uploads,
    ext,                        \* position of each extract_entities task
    extract_calls,              \* documents.extract calls issued, per file
    extract_response,           \* documents.extract answer, per file
    summary,                    \* the counts printed by the summary
    graph_stats,                \* create_knowledge_graph's status
    trace,                      \* which part of the history below is
                                \* recorded: "off", "collection" or "graph"
    list_answers,               \* history: the answers of the
                                \* collections.list calls made before the
                                \* uploads, in call order
    collections_created,        \* history: collections.create calls that
                                \* succeeded
    listings,                   \* history: answers of the two listing calls
                                \* of create_knowledge_graph
    tree,                       \* the entries under the folder given to
                                \* discover_files
    discovered,                 \* the list discover_files returned
    destination,                \* the collection_id argument of each
                                \* upload_file task
    results_lock,               \* whether results_lock is held
    fast_llm_requests,          \* QwenNoThinkLogger.fast_llm_requests
    calls                       \* the LLM calls the proxy reports to the
                                \* logger: their arguments and progress

vars == <<wf, status, exit_code, files, collection, list_calls,
          create_collection_calls, collection_id, max_concurrent_uploads,
          max_concurrent_extractions, upload_semaphore, extraction_semaphore,
          upload_stats, extraction_results, up, upload_result,
          create_response, done_queue, remaining, successful_uploads, ext,
          extract_calls, extract_response, summary, graph_stats, trace,
          list_answers, collections_created, listings, tree, discovered,
          destination, results_lock, fast_llm_requests, calls>>

\* the history variables and the input of discover_files; no action reads
\* the history, and it is only written in behaviours that start with trace
history == <<trace, list_answers, collections_created, listings>>
folder == <<tree, discovered>>

\* the state of the logger of custom_prompt.py, a program of its own
logger == <<fast_llm_requests, calls>>

\* QwenNoThinkLogger() and no LLM call to report
LoggerIdle ==
    /\ fast_llm_requests = {}
    /\ calls = [c \in CallSlots |-> NoCall]

\* a history variable takes the new value only when its part of the history
\* is recorded
Recorded(part, old, new) == IF trace = part THEN new ELSE old

NoSummary ==
    [printed |-> FALSE, uploaded_count |-> 0, skipped_count |-> 0,
     failed_count |-> 0, successful_extractions |-> 0,
     failed_extractions |-> 0, total_entities |-> 0, total_relationships |-> 0]

\* the state after R2RFolderUploader(base_url, uploads, extractions)
Constructed(uploads, extractions) ==
    /\ wf = "discover"
    /\ status = "none"
    /\ exit_code = 0 - 1
    /\ files = {}
    /\ collection \in {"absent", "present", "present_no_id"}
    /\ list_calls = 0
    /\ create_collection_calls = 0
    /\ collection_id = "None"
    /\ max_concurrent_uploads = uploads
    /\ max_concurrent_extractions = extractions
    /\ upload_semaphore = max_concurrent_uploads
    /\ extraction_semaphore = max_concurrent_extractions
    /\ upload_stats = [uploaded |-> <<>>, failed |-> <<>>, skipped |-> <<>>]
    /\ extraction_results = [successful |-> <<>>, failed |-> <<>>,
                             total_entities |-> 0, total_relationships |-> 0]
    /\ up = [f \in FileIds |-> "none"]
    /\ upload_result = [f \in FileIds |-> PendingResult(f)]
    /\ create_response = [f \in FileIds |-> "none"]
    /\ done_queue = <<>>
    /\ remaining = 0
    /\ successful_uploads = <<>>
    /\ ext = [f \in FileIds |-> "none"]
    /\ extract_calls = [f \in FileIds |-> 0]
    /\ extract_response = [f \in FileIds |-> NoResponse]
    /\ results_lock = FALSE
    /\ destination = [f \in FileIds |-> "None"]
    /\ summary = NoSummary
    /\ graph_stats = "none"
    /\ list_answers = <<>>
    /\ collections_created = 0
    /\ listings = <<>>
    /\ discovered = [returned |-> FALSE, files |-> <<>>]

\* the state after construction, for every pair of limits tried
Init ==
    /\ \E limits \in LimitPairs : Constructed(limits[1], limits[2])
    /\ trace = "off"
    /\ tree = {}
    /\ LoggerIdle

\* ------------------------------------------------- run_complete_workflow
ListOutcomes == {"raise", "results", "unrecognized"}

\* fault variant: the names in the list answer are never compared
NameListed_Never(lr) == FALSE

\* whether create_collection_if_needed finds the name in a list answer:
\* an answer in no recognised format, or entries without a name, give no names
NameListed(lr) == lr = "results" /\ collection # "absent"

\* get_collection_id: the id, or None
GetCollectionId(lr) ==
    IF lr = "results" /\ collection = "present" THEN "id" ELSE "None"

\* fault variant: the process exits with code 0 whatever the status
Exit_AlwaysZero(st, code) ==
    /\ status' = st
    /\ exit_code' = 0
    /\ wf' = "exit"

\* the status run_complete_workflow returns and the code main exits with

Exit(st, code) ==
    /\ status' = st
    /\ exit_code' = code
    /\ wf' = "exit"

\* discover_files, and the two early returns that follow it
Discover ==
    /\ wf = "discover"
    /\ \/ /\ \E e \in {"FileNotFoundError", "ValueError"} : Exit("error", 1)
          /\ UNCHANGED files
       \/ \E n \in 0..MaxFiles :
            /\ files' = 1..n
            /\ IF n = 0
               THEN Exit("no_files_found", 1)
               ELSE wf' = "collection" /\ UNCHANGED <<status, exit_code>>
    /\ UNCHANGED <<collection, list_calls, create_collection_calls,
                   collection_id, max_concurrent_uploads,
                   max_concurrent_extractions, upload_semaphore,
                   extraction_semaphore, upload_stats, extraction_results,
                   up, upload_result, create_response, done_queue, remaining,
                   successful_uploads, ext, extract_calls, extract_response,
                   summary, graph_stats, history, folder,
                   results_lock, logger, destination>>

\* create_collection_if_needed calls collections.create when the list call
\* returned and the name is not among the names read from its answer
CreateCalled(lr) == lr # "raise" /\ ~NameListed(lr)

\* fault variant: a failed collections.create is not reported
CollectionOk_IgnoresCreateFailure(lr, created) == lr # "raise"

\* fault variant: create_collection_if_needed returns True whatever happened
CollectionOk_Always(lr, created) == TRUE

\* the value create_collection_if_needed returns: False when the list call
\* or the create call raised
CollectionOk(lr, created) ==
    lr # "raise" /\ (NameListed(lr) \/ created)

\* the calls create_collection_if_needed makes, with the list answer lr and,
\* if collections.create is called, whether it succeeds
CollectionCalls(lr, created) ==
    /\ list_calls' = list_calls + 1
    /\ list_answers' = Recorded("collection", list_answers,
                             Append(list_answers, lr))
    /\ IF CreateCalled(lr)
       THEN /\ create_collection_calls' = create_collection_calls + 1
            /\ collection' = IF created /\ collection = "absent"
                             THEN "present" ELSE collection
            /\ collections_created' =
                  Recorded("collection", collections_created,
                           IF created THEN collections_created + 1
                           ELSE collections_created)
       ELSE UNCHANGED <<create_collection_calls, collection,
                        collections_created>>

\* create_collection_if_needed and the collection_error return
CreateCollectionIfNeeded ==
    /\ wf = "collection"
    /\ \E lr \in ListOutcomes, created \in BOOLEAN :
         /\ CollectionCalls(lr, created)
         /\ IF CollectionOk(lr, created)
            THEN wf' = "resolve" /\ UNCHANGED <<status, exit_code>>
            ELSE Exit("collection_error", 1)
    /\ UNCHANGED <<files, collection_id, max_concurrent_uploads,
                   max_concurrent_extractions, upload_semaphore,
                   extraction_semaphore, upload_stats, extraction_results,
                   up, upload_result, create_response, done_queue, remaining,
                   successful_uploads, ext, extract_calls, extract_response,
                   summary, graph_stats, trace, listings, folder,
                   results_lock, logger, destination>>

\* fault variant: the tasks after the first fall back to the collection name
TaskCollectionId_OnlyFirst(f, id) == IF f = 1 THEN id ELSE "collection_name"

\* the collection_id argument upload_file is called with for file f
TaskCollectionId(f, id) == id

\* upload_files_concurrently up to its first await: the collection id is
\* looked up once, then as_completed makes one task per file
StartUploads ==
    /\ wf = "resolve"
    /\ list_calls' = list_calls + 1
    /\ \E lr \in ListOutcomes :
         /\ collection_id' = IF GetCollectionId(lr) = "None"
                             THEN "collection_name" ELSE GetCollectionId(lr)
         /\ list_answers' = Recorded("collection", list_answers,
                                  Append(list_answers, lr))
    /\ up' = [f \in FileIds |-> IF f \in files THEN "new" ELSE "none"]
    /\ destination' = [f \in FileIds |->
                          IF f \in files THEN TaskCollectionId(f, collection_id')
                          ELSE "None"]
    /\ remaining' = Cardinality(files)
    /\ wf' = "uploads"
    /\ UNCHANGED <<status, exit_code, files, collection,
                   create_collection_calls, max_concurrent_uploads,
                   max_concurrent_extractions, upload_semaphore,
                   extraction_semaphore, upload_stats, extraction_results,
                   upload_result, create_response, done_queue,
                   successful_uploads, ext, extract_calls, extract_response,
                   summary, graph_stats, trace, collections_created, listings,
                   folder, results_lock, logger>>

\* ------------------------------------------------------------ upload_file
\* fault variant: the upload semaphore never blocks
UploadPermitFree_Always == TRUE

\* asyncio.Semaphore: acquire takes a permit when one is free
UploadPermitFree == upload_semaphore > 0

UploadTaskFrame ==
    UNCHANGED <<wf, status, exit_code, files, collection, list_calls,
                create_collection_calls, collection_id,
                max_concurrent_uploads, max_concurrent_extractions,
                extraction_semaphore, extraction_results, remaining,
                successful_uploads, ext, extract_calls, extract_response,
                summary, graph_stats, history, folder, logger, destination>>

UploadFrame == UploadTaskFrame /\ UNCHANGED results_lock

\* the task reaches "async with self.upload_semaphore": it enters and issues
\* documents.create, or suspends when no permit is free
UploadEnter(f) ==
    /\ up[f] = "new"
    /\ IF UploadPermitFree
       THEN /\ upload_semaphore' = upload_semaphore - 1
            /\ up' = [up EXCEPT ![f] = "create"]
       ELSE /\ up' = [up EXCEPT ![f] = "waiting"]
            /\ UNCHANGED upload_semaphore
    /\ UNCHANGED <<upload_stats, upload_result, create_response, done_queue>>
    /\ UploadFrame

\* fault variant: a task that had to wait is given up as failed
UploadAdmit_FailsWaiter(f) ==
    /\ up[f] = "waiting"
    /\ UploadPermitFree
    /\ upload_result' = [upload_result EXCEPT ![f] = UploadResult(f, "error")]
    /\ upload_stats' = RecordUpload(upload_stats, UploadResult(f, "error"))
    /\ up' = [up EXCEPT ![f] = "done"]
    /\ done_queue' = Append(done_queue, f)
    /\ UNCHANGED <<upload_semaphore, create_response>>
    /\ UploadFrame

\* a suspended task is given a permit
UploadAdmit(f) ==
    /\ up[f] = "waiting"
    /\ UploadPermitFree
    /\ upload_semaphore' = upload_semaphore - 1
    /\ up' = [up EXCEPT ![f] = "create"]
    /\ UNCHANGED <<upload_stats, upload_result, create_response, done_queue>>
    /\ UploadFrame

\* fault variant: an upload that ends with an error keeps its permit
UploadFinish_KeepsPermitOnError(f, resp) ==
    /\ create_response' = [create_response EXCEPT ![f] = resp]
    /\ upload_result' = [upload_result EXCEPT ![f] = UploadResult(f, resp)]
    /\ upload_stats' = RecordUpload(upload_stats, UploadResult(f, resp))
    /\ upload_semaphore' =
          IF Raises(resp) THEN upload_semaphore ELSE upload_semaphore + 1
    /\ up' = [up EXCEPT ![f] = "done"]
    /\ done_queue' = Append(done_queue, f)

\* the end of upload_file: the outcome is appended under results_lock, the
\* permit is released, the task finishes and as_completed queues it
UploadFinish(f, resp) ==
    /\ create_response' = [create_response EXCEPT ![f] = resp]
    /\ upload_result' = [upload_result EXCEPT ![f] = UploadResult(f, resp)]
    /\ upload_stats' = RecordUpload(upload_stats, UploadResult(f, resp))
    /\ upload_semaphore' = upload_semaphore + 1
    /\ up' = [up EXCEPT ![f] = "done"]
    /\ done_queue' = Append(done_queue, f)

\* fault variant: the first error is recorded before the upload is retried
UploadReturn_RecordsBeforeRetry(f) ==
    /\ up[f] = "create"
    /\ \E resp \in UploadResponses :
         IF MentionsCollectionIds(resp)
         THEN /\ up' = [up EXCEPT ![f] = "retry"]
              /\ upload_stats' = RecordUpload(upload_stats, UploadResult(f, resp))
              /\ UNCHANGED <<upload_semaphore, upload_result,
                             create_response, done_queue>>
         ELSE UploadFinish(f, resp)
    /\ UploadFrame

\* documents.create (with collection_ids) returns or raises
UploadReturn(f) ==
    /\ up[f] = "create"
    /\ \E resp \in UploadResponses :
         IF MentionsCollectionIds(resp)
         THEN /\ up' = [up EXCEPT ![f] = "retry"]
              /\ UNCHANGED <<upload_semaphore, upload_stats, upload_result,
                             create_response, done_queue>>
         ELSE UploadFinish(f, resp)
    /\ UploadFrame

\* fault variant: after the second answer the file is put back in line
UploadRetryReturn_Requeues(f) ==
    /\ up[f] = "retry"
    /\ up' = [up EXCEPT ![f] = "new"]
    /\ upload_semaphore' = upload_semaphore + 1
    /\ UNCHANGED <<upload_stats, upload_result, create_response, done_queue>>
    /\ UploadFrame

\* the second documents.create (without collection_ids) returns or raises
UploadRetryReturn(f) ==
    /\ up[f] = "retry"
    /\ \E resp \in UploadResponses : UploadFinish(f, resp)
    /\ UploadFrame

\* ------------------------------------------------------- extract_entities
\* fault variant: extract_entities waits on the upload semaphore
ExtractionPermitFree_UploadSemaphore == upload_semaphore > 0

\* asyncio.Semaphore: acquire takes a permit when one is free
ExtractionPermitFree == extraction_semaphore > 0

ExtractionTaskFrame ==
    UNCHANGED <<wf, status, exit_code, files, collection, list_calls,
                create_collection_calls, collection_id,
                max_concurrent_uploads, max_concurrent_extractions,
                upload_semaphore, upload_stats, up, upload_result,
                create_response, done_queue, remaining, successful_uploads,
                summary, graph_stats, history, folder, logger, destination>>

ExtractionFrame == ExtractionTaskFrame /\ UNCHANGED results_lock

\* the task reaches "async with self.extraction_semaphore": it enters and
\* issues documents.extract, or suspends when no permit is free
ExtractEnter(f) ==
    /\ ext[f] = "new"
    /\ IF ExtractionPermitFree
       THEN /\ extraction_semaphore' = extraction_semaphore - 1
            /\ ext' = [ext EXCEPT ![f] = "extract"]
            /\ extract_calls' = [extract_calls EXCEPT ![f] = @ + 1]
       ELSE /\ ext' = [ext EXCEPT ![f] = "waiting"]
            /\ UNCHANGED <<extraction_semaphore, extract_calls>>
    /\ UNCHANGED <<extraction_results, extract_response>>
    /\ ExtractionFrame

\* a suspended task is given a permit
ExtractAdmit(f) ==
    /\ ext[f] = "waiting"
    /\ ExtractionPermitFree
    /\ extraction_semaphore' = extraction_semaphore - 1
    /\ ext' = [ext EXCEPT ![f] = "extract"]
    /\ extract_calls' = [extract_calls EXCEPT ![f] = @ + 1]
    /\ UNCHANGED <<extraction_results, extract_response>>
    /\ ExtractionFrame

\* fault variant: an extraction that fails keeps its permit
ExtractReturn_KeepsPermitOnError(f) ==
    /\ ext[f] = "extract"
    /\ \E resp \in ExtractResponses :
         /\ extract_response' = [extract_response EXCEPT ![f] = resp]
         /\ extraction_results' =
                RecordExtraction(extraction_results,
                                 ExtractionResult(upload_result[f], resp))
         /\ extraction_semaphore' =
                IF resp.raises THEN extraction_semaphore
                ELSE extraction_semaphore + 1
    /\ ext' = [ext EXCEPT ![f] = "done"]
    /\ UNCHANGED extract_calls
    /\ ExtractionFrame

\* documents.extract returns or raises; the outcome is recorded under
\* results_lock, the permit is released and the task finishes
ExtractReturn(f) ==
    /\ ext[f] = "extract"
    /\ \E resp \in ExtractResponses :
         /\ extract_response' = [extract_response EXCEPT ![f] = resp]
         /\ extraction_results' =
                RecordExtraction(extraction_results,
                                 ExtractionResult(upload_result[f], resp))
    /\ extraction_semaphore' = extraction_semaphore + 1
    /\ ext' = [ext EXCEPT ![f] = "done"]
    /\ UNCHANGED extract_calls
    /\ ExtractionFrame

\* ---------------------------------------------- upload_files_concurrently
\* what line 328 makes of a successful upload: extract_entities(...) is
\* called without create_task, which gives a coroutine object that does not
\* run until asyncio.gather wraps it (line 337)
NewExtraction == "created"

\* fault variant: the extraction coroutines are never scheduled
Gather_NotScheduled(e) == e

\* asyncio.gather(*extraction_tasks): every coroutine becomes a running task
Gather(e) == [f \in FileIds |-> IF e[f] = "created" THEN "new" ELSE e[f]]

\* fault variant: the extractions are not awaited
GatherDone_NoWait == TRUE

\* the await of asyncio.gather returns once every extraction task is done
GatherDone == \A f \in FileIds : ext[f] \in {"none", "done"}

\* one round of the as_completed loop: the next finished upload is taken and,
\* if it succeeded, its extraction coroutine is created.  After the last
\* round the loop ends and the code runs on, without an await, to the gather
\* (or, with no extraction, to the summary).
TakeUpload ==
    /\ wf = "uploads"
    /\ done_queue # <<>>
    /\ LET f == Head(done_queue)
           result == upload_result[f]
           started == IF ShouldExtract(result)
                      THEN [ext EXCEPT ![f] = NewExtraction] ELSE ext
       IN  /\ done_queue' = Tail(done_queue)
           /\ remaining' = remaining - 1
           /\ successful_uploads' = IF ShouldExtract(result)
                                    THEN Append(successful_uploads, result)
                                    ELSE successful_uploads
           /\ IF remaining > 1
              THEN ext' = started /\ wf' = "uploads"
              ELSE IF \E g \in FileIds : started[g] # "none"
                   THEN ext' = Gather(started) /\ wf' = "gather"
                   ELSE ext' = started /\ wf' = "summary"
    /\ UNCHANGED <<status, exit_code, files, collection, list_calls,
                   create_collection_calls, collection_id,
                   max_concurrent_uploads, max_concurrent_extractions,
                   upload_semaphore, extraction_semaphore, upload_stats,
                   extraction_results, up, upload_result, create_response,
                   extract_calls, extract_response, summary, graph_stats,
                   history, folder,
                   results_lock, logger, destination>>

\* the counts the two summaries print (lines 340-360)
PrintedSummary ==
    [printed |-> TRUE,
     uploaded_count |-> Len(upload_stats.uploaded),
     skipped_count |-> Len(upload_stats.skipped),
     failed_count |-> Len(upload_stats.failed),
     successful_extractions |-> Len(extraction_results.successful),
     failed_extractions |-> Len(extraction_results.failed),
     total_entities |-> extraction_results.total_entities,
     total_relationships |-> extraction_results.total_relationships]

\* the end of upload_files_concurrently: the summary is printed and
\* successful_uploads returned; run_complete_workflow gives up when it is empty
FinishUploads ==
    /\ \/ wf = "summary"
       \/ wf = "gather" /\ GatherDone
    /\ summary' = PrintedSummary
    /\ IF successful_uploads = <<>>
       THEN Exit("upload_failed", 1)
       ELSE wf' = "graph" /\ UNCHANGED <<status, exit_code>>
    /\ UNCHANGED <<files, collection, list_calls, create_collection_calls,
                   collection_id, max_concurrent_uploads,
                   max_concurrent_extractions, upload_semaphore,
                   extraction_semaphore, upload_stats, extraction_results,
                   up, upload_result, create_response, done_queue, remaining,
                   successful_uploads, ext, extract_calls, extract_response,
                   graph_stats, history, folder,
                   results_lock, logger, destination>>

\* -------------------------------------------------- create_knowledge_graph
\* a listing call raises (caught: the list is taken as empty), returns a
\* countable answer, returns an answer whose .results has no length, or the
\* client has no such method
ListingOutcomes == {"raise", "countable", "unsized", "no_method"}

\* fault variant: a listing call that raises fails the graph report
GraphStatus_FailsOnRaise(entities, relationships) ==
    IF \E l \in {entities, relationships} : l \in {"raise", "unsized"}
    THEN "failed" ELSE "created"

\* the status of the dict create_knowledge_graph returns

GraphStatus(entities, relationships) ==
    IF entities = "unsized" \/ relationships = "unsized"
    THEN "failed" ELSE "created"

\* create_knowledge_graph, the success return and sys.exit(0)
CreateKnowledgeGraph ==
    /\ wf = "graph"
    /\ list_calls' = list_calls + 1
    /\ \E entities \in ListingOutcomes, relationships \in ListingOutcomes :
         /\ graph_stats' = GraphStatus(entities, relationships)
         /\ listings' = Recorded("graph", listings,
                                  <<entities, relationships>>)
    /\ Exit("success", 0)
    /\ UNCHANGED <<files, collection, create_collection_calls, collection_id,
                   max_concurrent_uploads, max_concurrent_extractions,
                   upload_semaphore, extraction_semaphore, upload_stats,
                   extraction_results, up, upload_result, create_response,
                   done_queue, remaining, successful_uploads, ext,
                   extract_calls, extract_response, summary, trace,
                   list_answers, collections_created, folder,
                   results_lock, logger, destination>>

\* ----------------------------------------------------------- specification
Next ==
    \/ Discover
    \/ CreateCollectionIfNeeded
    \/ StartUploads
    \/ \E f \in FileIds : UploadEnter(f)
    \/ \E f \in FileIds : UploadAdmit(f)
    \/ \E f \in FileIds : UploadReturn(f)
    \/ \E f \in FileIds : UploadRetryReturn(f)
    \/ TakeUpload
    \/ \E f \in FileIds : ExtractEnter(f)
    \/ \E f \in FileIds : ExtractAdmit(f)
    \/ \E f \in FileIds : ExtractReturn(f)
    \/ FinishUploads
    \/ CreateKnowledgeGraph

Spec == Init /\ [][Next]_vars

\* the same program with the history of the collection calls recorded, for
\* one pair of limits
InitTraced ==
    /\ Constructed(1, 1)
    /\ trace = "collection"
    /\ tree = {}
    /\ LoggerIdle

SpecTraced == InitTraced /\ [][Next]_vars

\* create_collection_if_needed called on its own, on a constructed uploader
CallCreateCollectionIfNeeded ==
    /\ wf = "discover"
    /\ list_calls < MaxCalls
    /\ \E lr \in ListOutcomes, created \in BOOLEAN :
         CollectionCalls(lr, created)
    /\ UNCHANGED <<wf, status, exit_code, files, collection_id,
                   max_concurrent_uploads, max_concurrent_extractions,
                   upload_semaphore, extraction_semaphore, upload_stats,
                   extraction_results, up, upload_result, create_response,
                   done_queue, remaining, successful_uploads, ext,
                   extract_calls, extract_response, summary, graph_stats,
                   trace, listings, folder,
                   results_lock, logger, destination>>

InitCollection ==
    /\ \E uploads \in UploadLimits, extractions \in ExtractionLimits :
         Constructed(uploads, extractions)
    /\ trace = "collection"
    /\ tree = {}
    /\ LoggerIdle

NextCollection == CallCreateCollectionIfNeeded

\* repeated calls of create_collection_if_needed against one service
SpecCollection == InitCollection /\ [][NextCollection]_vars

\* the same program with the answers of the graph listings recorded, for
\* one pair of limits
InitGraph ==
    /\ Constructed(1, 1)
    /\ trace = "graph"
    /\ tree = {}
    /\ LoggerIdle

SpecGraph == InitGraph /\ [][Next]_vars

\* the program under a scheduler that runs a task that is ready and a
\* service whose calls return or raise: a step that stays possible is taken
InitFair ==
    /\ Constructed(1, 1)
    /\ trace = "off"
    /\ tree = {}
    /\ LoggerIdle

SpecFair == InitFair /\ [][Next]_vars /\ WF_vars(Next)

\* ------------------------------------------------------------ results_lock
\* The same tasks with "async with self.results_lock" as a step of its own:
\* a task takes the lock or suspends until it is free, and appends its
\* record in a later step. This allows every interleaving that the await
\* inside "async with" could give.

\* the service call of upload_file has been answered with resp, the result
\* dict is filled in and the task reaches "async with self.results_lock"
UploadAnswered(f, resp) ==
    /\ create_response' = [create_response EXCEPT ![f] = resp]
    /\ upload_result' = [upload_result EXCEPT ![f] = UploadResult(f, resp)]
    /\ IF results_lock
       THEN up' = [up EXCEPT ![f] = "lockwait"] /\ UNCHANGED results_lock
       ELSE up' = [up EXCEPT ![f] = "locked"] /\ results_lock' = TRUE
    /\ UNCHANGED <<upload_semaphore, upload_stats, done_queue>>

\* documents.create (with collection_ids) returns or raises
UploadAnswer(f) ==
    /\ up[f] = "create"
    /\ \E resp \in UploadResponses :
         IF MentionsCollectionIds(resp)
         THEN /\ up' = [up EXCEPT ![f] = "retry"]
              /\ UNCHANGED <<upload_semaphore, upload_stats, upload_result,
                             create_response, done_queue, results_lock>>
         ELSE UploadAnswered(f, resp)
    /\ UploadTaskFrame

\* the second documents.create (without collection_ids) returns or raises
UploadRetryAnswer(f) ==
    /\ up[f] = "retry"
    /\ \E resp \in UploadResponses : UploadAnswered(f, resp)
    /\ UploadTaskFrame

\* fault variant: a suspended task takes the lock while it is held
UploadLockAdmit_Barges(f) ==
    /\ up[f] = "lockwait"
    /\ results_lock' = TRUE
    /\ up' = [up EXCEPT ![f] = "locked"]
    /\ UNCHANGED <<upload_semaphore, upload_stats, upload_result,
                   create_response, done_queue>>
    /\ UploadTaskFrame

\* a task suspended on results_lock is given the lock
UploadLockAdmit(f) ==
    /\ up[f] = "lockwait"
    /\ ~results_lock
    /\ results_lock' = TRUE
    /\ up' = [up EXCEPT ![f] = "locked"]
    /\ UNCHANGED <<upload_semaphore, upload_stats, upload_result,
                   create_response, done_queue>>
    /\ UploadTaskFrame

\* the append under the lock; the lock and then the permit are released and
\* the task finishes
UploadRecord(f) ==
    /\ up[f] = "locked"
    /\ upload_stats' = RecordUpload(upload_stats, upload_result[f])
    /\ results_lock' = FALSE
    /\ upload_semaphore' = upload_semaphore + 1
    /\ up' = [up EXCEPT ![f] = "done"]
    /\ done_queue' = Append(done_queue, f)
    /\ UNCHANGED <<upload_result, create_response>>
    /\ UploadTaskFrame

\* documents.extract returns or raises, the result dict is filled in and the
\* task reaches "async with self.results_lock"
ExtractAnswer(f) ==
    /\ ext[f] = "extract"
    /\ \E resp \in ExtractResponses :
         extract_response' = [extract_response EXCEPT ![f] = resp]
    /\ IF results_lock
       THEN ext' = [ext EXCEPT ![f] = "lockwait"] /\ UNCHANGED results_lock
       ELSE ext' = [ext EXCEPT ![f] = "locked"] /\ results_lock' = TRUE
    /\ UNCHANGED <<extraction_semaphore, extraction_results, extract_calls>>
    /\ ExtractionTaskFrame

\* a task suspended on results_lock is given the lock
ExtractLockAdmit(f) ==
    /\ ext[f] = "lockwait"
    /\ ~results_lock
    /\ results_lock' = TRUE
    /\ ext' = [ext EXCEPT ![f] = "locked"]
    /\ UNCHANGED <<extraction_semaphore, extraction_results, extract_calls,
                   extract_response>>
    /\ ExtractionTaskFrame

\* the update under the lock; the lock and then the permit are released and
\* the task finishes
ExtractRecord(f) ==
    /\ ext[f] = "locked"
    /\ extraction_results' =
          RecordExtraction(extraction_results,
                           ExtractionResult(upload_result[f],
                                            extract_response[f]))
    /\ results_lock' = FALSE
    /\ extraction_semaphore' = extraction_semaphore + 1
    /\ ext' = [ext EXCEPT ![f] = "done"]
    /\ UNCHANGED <<extract_calls, extract_response>>
    /\ ExtractionTaskFrame

NextLock ==
    \/ Discover
    \/ CreateCollectionIfNeeded
    \/ StartUploads
    \/ \E f \in FileIds : UploadEnter(f)
    \/ \E f \in FileIds : UploadAdmit(f)
    \/ \E f \in FileIds : UploadAnswer(f)
    \/ \E f \in FileIds : UploadRetryAnswer(f)
    \/ \E f \in FileIds : UploadLockAdmit(f)
    \/ \E f \in FileIds : UploadRecord(f)
    \/ TakeUpload
    \/ \E f \in FileIds : ExtractEnter(f)
    \/ \E f \in FileIds : ExtractAdmit(f)
    \/ \E f \in FileIds : ExtractAnswer(f)
    \/ \E f \in FileIds : ExtractLockAdmit(f)
    \/ \E f \in FileIds : ExtractRecord(f)
    \/ FinishUploads
    \/ CreateKnowledgeGraph

\* limits of one, where tasks wait for a permit, and of two, where two tasks
\* reach results_lock together
InitLock ==
    /\ \E limit \in {1, 2} : Constructed(limit, limit)
    /\ trace = "off"
    /\ tree = {}
    /\ LoggerIdle

SpecLock == InitLock /\ [][NextLock]_vars

\* --------------------------------------------- QwenNoThinkLogger: hooks
\* the variables of the uploader, which the logger never touches
uploader == <<wf, status, exit_code, files, collection, list_calls,
              create_collection_calls, collection_id, max_concurrent_uploads,
              max_concurrent_extractions, upload_semaphore,
              extraction_semaphore, upload_stats, extraction_results, up,
              upload_result, create_response, done_queue, remaining,
              successful_uploads, ext, extract_calls, extract_response,
              summary, graph_stats, history, folder, destination,
              results_lock>>

\* log_pre_api_call, also reached through async_log_pre_api_call, for the
\* call in slot c; the proxy runs it before the request is sent
LogPreApiCall(c) ==
    /\ calls[c].phase \in {"new", "started"}
    /\ calls[c].pre_calls < MaxHookCalls
    /\ fast_llm_requests' =
          IF calls[c].fast /\ calls[c].call_id # NoCallId
          THEN fast_llm_requests \cup {calls[c].call_id}
          ELSE fast_llm_requests
    /\ calls' = [calls EXCEPT
                   ![c] = [PreApiCall(@) EXCEPT !.phase = "started",
                                                !.pre_calls = @ + 1]]
    /\ UNCHANGED uploader

\* fault variant: a failed call is left in the set
Discard_Nothing(requests, call_id) == requests

\* the body shared by the success and failure hooks
Discard(requests, call_id) ==
    IF call_id \in requests THEN requests \ {call_id} ELSE requests

\* log_success_event / async_log_success_event for the call in slot c
LogSuccessEvent(c) ==
    /\ calls[c].phase = "started"
    /\ fast_llm_requests' = Discard(fast_llm_requests, calls[c].call_id)
    /\ calls' = [calls EXCEPT ![c].phase = "succeeded"]
    /\ UNCHANGED uploader

\* log_failure_event / async_log_failure_event for the call in slot c
LogFailureEvent(c) ==
    /\ calls[c].phase = "started"
    /\ fast_llm_requests' = Discard(fast_llm_requests, calls[c].call_id)
    /\ calls' = [calls EXCEPT ![c].phase = "failed"]
    /\ UNCHANGED uploader

NextLogger ==
    \/ \E c \in CallSlots : LogPreApiCall(c)
    \/ \E c \in CallSlots : LogSuccessEvent(c)
    \/ \E c \in CallSlots : LogFailureEvent(c)

\* the uploader is not running
UploaderIdle ==
    /\ Constructed(1, 1)
    /\ collection = "absent"
    /\ trace = "off"
    /\ tree = {}

\* several LLM calls, each with one user message and its own call id or
\* none, reported in any interleaving
InitLogger ==
    /\ UploaderIdle
    /\ fast_llm_requests = {}
    /\ calls \in [CallSlots ->
                    {NewCall(fast, id, "shared", "absent",
                             <<[role |-> "user", content |-> 0]>>) :
                       fast \in BOOLEAN, id \in {NoCallId} \cup CallSlots}]
    /\ \A c \in CallSlots : calls[c].call_id \in {NoCallId, c}

SpecLogger == InitLogger /\ [][NextLogger]_vars

\* one LLM call with any arguments
InitPrompt ==
    /\ UploaderIdle
    /\ fast_llm_requests = {}
    /\ \E fast \in BOOLEAN, id \in {NoCallId, 1}, input \in InputShapes,
          prompt \in Prompts, messages \in Conversations :
         /\ input = "not_dict" => prompt = "absent"
         /\ calls = [c \in CallSlots |->
                       IF c = 1
                       THEN NewCall(fast, id, input, prompt, messages)
                       ELSE NoCall]

SpecPrompt == InitPrompt /\ [][NextLogger]_vars

\* ---------------------------------------------------------- discover_files
\* A name is the sequence of the code points of its characters, a path the
\* sequence of its names below the folder given to discover_files.

SUPPORTED_EXTENSIONS == {
    <<46, 116, 120, 116>>,                      \* .txt
    <<46, 109, 100>>,                           \* .md
    <<46, 114, 116, 102>>,                      \* .rtf
    <<46, 112, 100, 102>>,                      \* .pdf
    <<46, 106, 115, 111, 110>>,                 \* .json
    <<46, 106, 115, 111, 110, 108>>,            \* .jsonl
    <<46, 99, 115, 118>>,                       \* .csv
    <<46, 116, 115, 118>>,                      \* .tsv
    <<46, 100, 111, 99, 120>>,                  \* .docx
    <<46, 100, 111, 99>>,                       \* .doc
    <<46, 112, 112, 116, 120>>,                 \* .pptx
    <<46, 112, 112, 116>>,                      \* .ppt
    <<46, 120, 108, 115, 120>>,                 \* .xlsx
    <<46, 120, 108, 115>>,                      \* .xls
    <<46, 112, 110, 103>>,                      \* .png
    <<46, 106, 112, 103>>,                      \* .jpg
    <<46, 106, 112, 101, 103>>,                 \* .jpeg
    <<46, 103, 105, 102>>,                      \* .gif
    <<46, 109, 112, 51>>,                       \* .mp3
    <<46, 119, 97, 118>>,                       \* .wav
    <<46, 109, 52, 97>>,                        \* .m4a
    <<46, 109, 112, 52>>,                       \* .mp4
    <<46, 97, 118, 105>>,                       \* .avi
    <<46, 109, 111, 118>>,                      \* .mov
    <<46, 104, 116, 109, 108>>,                 \* .html
    <<46, 104, 116, 109>>,                      \* .htm
    <<46, 120, 109, 108>>                       \* .xml
    }

\* str.lower on one character (the names here are ASCII)
Lower(c) == IF c >= 65 /\ c <= 90 THEN c + 32 ELSE c

LowerName(name) == [i \in DOMAIN name |-> Lower(name[i])]

\* Path.suffix: the name from its last dot on, unless that dot is the first
\* or the last character of the name
Suffix(name) ==
    LET dots == {i \in DOMAIN name : name[i] = 46}
    IN  IF dots = {} THEN <<>>
        ELSE LET i == CHOOSE d \in dots : \A e \in dots : e <= d
             IN  IF 1 < i /\ i < Len(name)
                 THEN SubSeq(name, i, Len(name)) ELSE <<>>

\* the test discover_files applies to each entry rglob yields
Eligible(entry) ==
    /\ entry.is_file
    /\ LowerName(Suffix(entry.parts[Len(entry.parts)]))
         \in SUPPORTED_EXTENSIONS

\* the order of two strings: by the first character that differs, a proper
\* prefix first
NameLess(a, b) ==
    \E k \in 1..(Len(a) + 1) :
      /\ k <= Len(b)
      /\ \A j \in 1..(k - 1) : a[j] = b[j]
      /\ k <= Len(a) => a[k] < b[k]

\* the order of two Path objects: by the first name that differs, a proper
\* prefix first
PathLess(p, q) ==
    \E k \in 1..(Len(p) + 1) :
      /\ k <= Len(q)
      /\ \A j \in 1..(k - 1) : p[j] = q[j]
      /\ k <= Len(p) => NameLess(p[k], q[k])

RECURSIVE Insert(_, _)
Insert(p, s) ==
    IF s = <<>> THEN <<p>>
    ELSE IF PathLess(p, Head(s)) THEN <<p>> \o s
         ELSE <<Head(s)>> \o Insert(p, Tail(s))

RECURSIVE InsertAll(_)
InsertAll(s) ==
    IF s = <<>> THEN <<>>
    ELSE Insert(Head(s), InsertAll(Tail(s)))

\* fault variant: the list is returned in the order rglob yielded it
SortedPaths_Unsorted(s) == s

\* sorted(files)
SortedPaths(s) == InsertAll(s)

\* the entries that may lie under the folder
Entries == {
    \* d/x.txt
    [parts |-> <<<<100>>, <<120, 46, 116, 120, 116>>>>,
     is_file |-> TRUE],
    \* d-e/y.TXT
    [parts |-> <<<<100, 45, 101>>, <<121, 46, 84, 88, 84>>>>,
     is_file |-> TRUE],
    \* a.exe
    [parts |-> <<<<97, 46, 101, 120, 101>>>>,
     is_file |-> TRUE],
    \* B.txt
    [parts |-> <<<<66, 46, 116, 120, 116>>>>,
     is_file |-> TRUE],
    \* .txt
    [parts |-> <<<<46, 116, 120, 116>>>>,
     is_file |-> TRUE],
    \* c.txt (a directory)
    [parts |-> <<<<99, 46, 116, 120, 116>>>>,
     is_file |-> FALSE],
    \* d.pdf
    [parts |-> <<<<100, 46, 112, 100, 102>>>>,
     is_file |-> TRUE]
    }

\* the orders in which rglob may yield the entries of a tree
RECURSIVE Enumerations(_)
Enumerations(entries) ==
    IF entries = {} THEN {<<>>}
    ELSE UNION {{<<e>> \o s : s \in Enumerations(entries \ {e})} :
                  e \in entries}

RECURSIVE Retained(_)
Retained(yielded) ==
    IF yielded = <<>> THEN <<>>
    ELSE IF Eligible(Head(yielded))
         THEN <<Head(yielded).parts>> \o Retained(Tail(yielded))
         ELSE Retained(Tail(yielded))

\* discover_files on an existing directory, rglob yielding the entries in
\* the order given
DiscoverFiles(yielded) == SortedPaths(Retained(yielded))

\* a call of discover_files on the folder
CallDiscoverFiles ==
    /\ wf = "discover"
    /\ \E yielded \in Enumerations(tree) :
         discovered' = [returned |-> TRUE, files |-> DiscoverFiles(yielded)]
    /\ UNCHANGED <<wf, status, exit_code, files, collection, list_calls,
                   create_collection_calls, collection_id,
                   max_concurrent_uploads, max_concurrent_extractions,
                   upload_semaphore, extraction_semaphore, upload_stats,
                   extraction_results, up, upload_result, create_response,
                   done_queue, remaining, successful_uploads, ext,
                   extract_calls, extract_response, summary, graph_stats,
                   history, tree, results_lock, logger, destination>>

InitDiscover ==
    /\ Constructed(1, 1)
    /\ trace = "off"
    /\ tree \in SUBSET Entries
    /\ LoggerIdle

NextDiscover == CallDiscoverFiles

\* discover_files called on every tree made of the entries above
SpecDiscover == InitDiscover /\ [][NextDiscover]_vars


\* ================================================================ properties
RECURSIVE SumEntities(_), SumRelationships(_)
SumEntities(records) ==
    IF records = <<>> THEN 0
    ELSE Head(records).entities_count + SumEntities(Tail(records))
SumRelationships(records) ==
    IF records = <<>> THEN 0
    ELSE Head(records).relationships_count + SumRelationships(Tail(records))

\* the file has a record in the list
Listed(records, f) == \E i \in DOMAIN records : records[i].file_path = f

\* upload_files_concurrently has returned (its summary is printed)
Returned == summary.printed

UploadsInFlight == {f \in FileIds : up[f] \in {"create", "retry"}}
ExtractionsInFlight == {f \in FileIds : ext[f] = "extract"}

\* the per-file state of the pipeline, read off the program state
FileState(f) ==
    CASE up[f] \in {"none", "new", "waiting"} -> "Discovered"
      [] up[f] \in {"create", "retry"} -> "Uploading"
      [] upload_result[f].upload_status = "skipped" -> "Skipped"
      [] upload_result[f].upload_status = "failed" -> "UploadFailed"
      [] ext[f] = "extract" -> "Extracting"
      [] ext[f] = "done" /\ Listed(extraction_results.successful, f) ->
            "ExtractionSucceeded"
      [] ext[f] = "done" /\ Listed(extraction_results.failed, f) ->
            "ExtractionFailed"
      [] OTHER -> "Uploaded"

TerminalStates ==
    {"Skipped", "UploadFailed", "ExtractionSucceeded", "ExtractionFailed"}

\* C1: when upload_files_concurrently returns, the uploaded, skipped and
\* failed lists together hold as many records as files were discovered.
C1_UploadCountsSumToFiles ==
    Returned =>
        Len(upload_stats.uploaded) + Len(upload_stats.skipped)
            + Len(upload_stats.failed) = Cardinality(files)

C1_Witness ==
    /\ Returned
    /\ Cardinality(files) = MaxFiles
    /\ upload_stats.skipped # <<>>
    /\ \E i \in DOMAIN upload_stats.failed :
         upload_stats.failed[i].error = "Could not extract document ID"

\* C2: an extraction is started as soon as its own upload has succeeded and
\* an extraction permit is free; it is never held back, with a permit free,
\* while the upload of another file is still unfinished.
C2_ExtractionStartsWithoutWaitingForUploads ==
    \A a \in files : \A b \in files :
        ~ ( /\ Listed(successful_uploads, a)
            /\ ext[a] = "created"
            /\ ExtractionPermitFree
            /\ up[b] # "done" )

\* what the code does instead: documents.extract is never called while any
\* upload is unfinished
NoExtractionBeforeAllUploads ==
    \A a \in files :
        extract_calls[a] > 0 => \A b \in files : up[b] = "done"

\* C3: documents.extract is called at most once per file and only for files
\* in upload_stats.uploaded; at the return it has been called exactly once for
\* each of them and successful + failed extractions = uploaded files.
C3_OneExtractionPerUploadedFile ==
    /\ \A f \in FileIds :
         /\ extract_calls[f] <= 1
         /\ extract_calls[f] > 0 => Listed(upload_stats.uploaded, f)
         /\ ext[f] # "none" => Listed(upload_stats.uploaded, f)
    /\ Returned =>
         /\ \A f \in files :
              Listed(upload_stats.uploaded, f) => extract_calls[f] = 1
         /\ Len(extraction_results.successful)
                + Len(extraction_results.failed)
              = Len(upload_stats.uploaded)

C3_Witness ==
    /\ Returned
    /\ upload_stats.uploaded # <<>>
    /\ upload_stats.skipped # <<>> \/ upload_stats.failed # <<>>
    /\ \E f \in files : extract_calls[f] = 1

\* C4: in every state total_entities and total_relationships are the sums of
\* the counts of the records in extraction_results.successful.
C4_TotalsAreSumsOfSuccessful ==
    /\ extraction_results.total_entities
         = SumEntities(extraction_results.successful)
    /\ extraction_results.total_relationships
         = SumRelationships(extraction_results.successful)

C4_Witness ==
    /\ Len(extraction_results.successful) >= 2
    /\ extraction_results.failed = <<>>
    /\ extraction_results.total_entities > MaxCount
    /\ extraction_results.total_relationships > 0

\* C5: the uploads inside the upload semaphore (first documents.create or the
\* retry without collection_ids) never exceed max_concurrent_uploads.
C5_UploadsWithinLimit ==
    Cardinality(UploadsInFlight) <= max_concurrent_uploads

C5_Witness ==
    /\ Cardinality(UploadsInFlight) = max_concurrent_uploads
    /\ \E f \in files : up[f] = "retry"
    /\ \E f \in files : up[f] = "waiting"

\* C6: the extractions in flight never exceed max_concurrent_extractions, and
\* each limiter admits by its own permits alone: a waiting extraction can be
\* admitted exactly when fewer than max_concurrent_extractions are in flight,
\* a waiting upload exactly when fewer than max_concurrent_uploads are.
C6_ExtractionsWithinOwnLimit ==
    /\ Cardinality(ExtractionsInFlight) <= max_concurrent_extractions
    /\ \A f \in FileIds :
         ext[f] = "waiting" =>
            (ENABLED ExtractAdmit(f)
               <=> Cardinality(ExtractionsInFlight) < max_concurrent_extractions)
    /\ \A f \in FileIds :
         up[f] = "waiting" =>
            (ENABLED UploadAdmit(f)
               <=> Cardinality(UploadsInFlight) < max_concurrent_uploads)

C6_Witness ==
    /\ Cardinality(ExtractionsInFlight) = max_concurrent_extractions
    /\ \E f \in files : ext[f] = "waiting"
    /\ upload_semaphore > max_concurrent_extractions

\* C7: once upload_files_concurrently has returned, or the run has a status
\* that follows it, every discovered file is in a terminal state.
C7_ReturnsOnlyWhenAllTerminal ==
    (Returned \/ status \in {"upload_failed", "success"}) =>
        \A f \in files : FileState(f) \in TerminalStates

C7_Witness ==
    /\ Returned
    /\ \E f \in files : FileState(f) = "ExtractionFailed"
    /\ \E f \in files : FileState(f) \in {"Skipped", "ExtractionSucceeded"}

\* C8: every record of extraction_results, successful or failed, belongs to a
\* file that has a record in upload_stats.uploaded.
C8_ExtractionOnlyAfterOwnUpload ==
    /\ \A i \in DOMAIN extraction_results.successful :
         Listed(upload_stats.uploaded,
                extraction_results.successful[i].file_path)
    /\ \A i \in DOMAIN extraction_results.failed :
         Listed(upload_stats.uploaded,
                extraction_results.failed[i].file_path)

C8_Witness ==
    /\ extraction_results.failed # <<>>
    /\ \E f \in files : up[f] = "done" /\ upload_result[f].upload_status = "failed"

\* C9: the printed summary is a function of the files and of the answers the
\* service gave for them; it depends neither on max_concurrent_uploads nor on
\* the order in which uploads and extractions completed.
ExpectedUploaded == {f \in files : create_response[f] = "id"}
ExpectedSkipped == {f \in files : MentionsAlreadyExists(create_response[f])}
ExpectedExtracted == {f \in ExpectedUploaded : ~extract_response[f].raises}

RECURSIVE ExpectedTotal(_, _)
ExpectedTotal(fs, k) ==
    IF fs = {} THEN 0
    ELSE LET f == CHOOSE g \in fs : TRUE
         IN  CountEntities(extract_response[f])[k] + ExpectedTotal(fs \ {f}, k)

ExpectedSummary ==
    [printed |-> TRUE,
     uploaded_count |-> Cardinality(ExpectedUploaded),
     skipped_count |-> Cardinality(ExpectedSkipped),
     failed_count |-> Cardinality(files) - Cardinality(ExpectedUploaded)
                        - Cardinality(ExpectedSkipped),
     successful_extractions |-> Cardinality(ExpectedExtracted),
     failed_extractions |-> Cardinality(ExpectedUploaded)
                               - Cardinality(ExpectedExtracted),
     total_entities |-> ExpectedTotal(ExpectedExtracted, 1),
     total_relationships |-> ExpectedTotal(ExpectedExtracted, 2)]

C9_SummaryDeterminedByResponses ==
    Returned => summary = ExpectedSummary

C9_Witness ==
    /\ Returned
    /\ max_concurrent_uploads = 1
    /\ Cardinality(files) = MaxFiles
    /\ summary.successful_extractions >= 2
    /\ summary.total_entities > MaxCount

\* the files whose extract_entities task has finished
ExtractionsDone == {f \in FileIds : ext[f] = "done"}

\* an answer of documents.extract that did not raise and carries no counts
NoCounts(resp) ==
    /\ ~resp.raises
    /\ resp.entities = Absent
    /\ resp.relationships = Absent

\* C10 as stated: an answer without counts is recorded with zero entities
\* and zero relationships and adds nothing to the totals.
C10_NoCountsRecordedAsZero ==
    /\ \A i \in DOMAIN extraction_results.successful :
         LET r == extraction_results.successful[i]
         IN  NoCounts(extract_response[r.file_path]) =>
                r.entities_count = 0 /\ r.relationships_count = 0
    /\ (\A f \in ExtractionsDone : NoCounts(extract_response[f])) =>
         /\ extraction_results.total_entities = 0
         /\ extraction_results.total_relationships = 0

\* C10 as amended: an answer without counts that acknowledges success is
\* recorded with the placeholder entities_count = 1 and zero relationships,
\* and adds 1 to total_entities; without an acknowledgement both are 0.
C10_NoCountsRecordedAsPlaceholder ==
    /\ \A i \in DOMAIN extraction_results.successful :
         LET r == extraction_results.successful[i]
             resp == extract_response[r.file_path]
         IN  NoCounts(resp) =>
                /\ r.extraction_status = "success"
                /\ r.entities_count = (IF resp.ack THEN 1 ELSE 0)
                /\ r.relationships_count = 0
    /\ (\A f \in ExtractionsDone : NoCounts(extract_response[f])) =>
         /\ extraction_results.total_entities
              = Cardinality({f \in ExtractionsDone : extract_response[f].ack})
         /\ extraction_results.total_relationships = 0

C10_Witness ==
    /\ Cardinality(ExtractionsDone) >= 2
    /\ \A f \in ExtractionsDone :
         NoCounts(extract_response[f]) /\ extract_response[f].ack
    /\ extraction_results.total_entities = Cardinality(ExtractionsDone)

\* the number of records about file f in a list of result records
CountIn(records, f) ==
    Cardinality({i \in DOMAIN records : records[i].file_path = f})

\* C11: when the create call returned without a document id, the file has
\* exactly one record in the failed list, with the missing-id error, none
\* in the uploaded or skipped lists, and no extraction is created, started
\* or called for it.
C11_MissingIdIsOneFailure ==
    \A f \in FileIds :
      (up[f] = "done" /\ create_response[f] = "no_id") =>
         /\ CountIn(upload_stats.failed, f) = 1
         /\ CountIn(upload_stats.uploaded, f) = 0
         /\ CountIn(upload_stats.skipped, f) = 0
         /\ upload_result[f].upload_status = "failed"
         /\ upload_result[f].error = "Could not extract document ID"
         /\ CountIn(successful_uploads, f) = 0
         /\ ext[f] = "none"
         /\ extract_calls[f] = 0

C11_Witness ==
    /\ wf = "exit"
    /\ \E f \in FileIds :
         /\ create_response[f] = "no_id"
         /\ CountIn(upload_stats.failed, f) = 1
    /\ \E g \in FileIds : extract_calls[g] = 1

\* C12 as stated: a file whose upload call was rejected by the service ends
\* as skipped or failed. An error that mentions collection_ids or an
\* unexpected keyword argument makes upload_file call documents.create a
\* second time, and the second call may succeed.
C12_EveryUploadErrorSkipsOrFails ==
    [][\A f \in FileIds :
         (up[f] = "retry" /\ up'[f] = "done") =>
            upload_result'[f].upload_status \in {"skipped", "failed"}]_vars

\* C12 as amended: the answer that decides the outcome is the first answer,
\* or the answer of the second call made after a first error that mentions
\* collection_ids or an unexpected keyword argument. If the deciding answer
\* is an "already exists" error the file has exactly one record in the
\* skipped list and none in the failed list; every other deciding error
\* gives exactly one record in the failed list and none in the skipped
\* list. Neither is uploaded and no extraction is attempted for the file.
C12_DecidingErrorSkipsOrFails ==
    \A f \in FileIds :
      (up[f] = "done" /\ Raises(create_response[f])) =>
         /\ IF MentionsAlreadyExists(create_response[f])
            THEN /\ upload_result[f].upload_status = "skipped"
                 /\ CountIn(upload_stats.skipped, f) = 1
                 /\ CountIn(upload_stats.failed, f) = 0
            ELSE /\ upload_result[f].upload_status = "failed"
                 /\ CountIn(upload_stats.skipped, f) = 0
                 /\ CountIn(upload_stats.failed, f) = 1
         /\ CountIn(upload_stats.uploaded, f) = 0
         /\ CountIn(successful_uploads, f) = 0
         /\ ext[f] = "none"
         /\ extract_calls[f] = 0

C12_Witness ==
    /\ wf = "exit"
    /\ \E f, g \in FileIds :
         /\ create_response[f] = "kwarg_exists"
         /\ CountIn(upload_stats.skipped, f) = 1
         /\ create_response[g] = "error"
         /\ CountIn(upload_stats.failed, g) = 1
         /\ Len(upload_stats.failed) = 1

\* no documents.create call and no extract call has been issued
NothingIssued ==
    \A f \in FileIds :
      /\ up[f] = "none"
      /\ create_response[f] = "none"
      /\ ext[f] = "none"
      /\ extract_calls[f] = 0

\* C13: a run whose discovery failed (status error) or whose
\* create_collection_if_needed returned False (status collection_error) ends
\* with exit code 1 and never issues an upload or extract call; after a
\* discovery failure no collection list or create call is issued either.
\* Conversely an upload is only issued after files were found, both list
\* calls were made and the collection exists.
C13_FailFastBeforeUploads ==
    /\ status \in {"error", "collection_error"} =>
         /\ wf = "exit"
         /\ exit_code = 1
         /\ NothingIssued
         /\ upload_stats.uploaded = <<>>
    /\ status = "error" =>
         /\ list_calls = 0
         /\ create_collection_calls = 0
    /\ ~NothingIssued =>
         /\ files # {}
         /\ list_calls >= 2
         /\ collection # "absent"

C13_Witness ==
    /\ status = "collection_error"
    /\ list_calls = 1
    /\ create_collection_calls = 1
    /\ collection = "absent"
    /\ files = FileIds
    /\ NothingIssued

\* a documents.create call has been issued for some file
UploadIssued == \E f \in FileIds : up[f] \in {"create", "retry", "done"}

\* the list call of create_collection_if_needed, or its create call, failed
EnsureFailed ==
    \/ Len(list_answers) >= 1 /\ list_answers[1] = "raise"
    \/ create_collection_calls > collections_created

\* the list call of get_collection_id in upload_files_concurrently failed
LookupFailed == Len(list_answers) >= 2 /\ list_answers[2] = "raise"

\* C14 as stated: after a failed list or create call, in
\* create_collection_if_needed or in get_collection_id, no upload is issued
\* and the run ends as a collection error. get_collection_id catches the
\* failure of its list call and returns None; the run goes on with the
\* collection name in place of the id.
C14_AnyResolutionFailureIsFatal ==
    (EnsureFailed \/ LookupFailed) =>
       /\ ~UploadIssued
       /\ wf = "exit" => status = "collection_error"

\* C14 as amended: a failed list or create call inside
\* create_collection_if_needed ends the run as a collection error with no
\* upload issued, and only such a failure gives a collection error. A failed
\* list call inside get_collection_id is not fatal: the uploads are
\* scheduled with the collection name as destination and the run never
\* ends as a collection error.
C14_OnlyEnsureFailureIsFatal ==
    /\ EnsureFailed =>
         /\ wf = "exit"
         /\ status = "collection_error"
         /\ exit_code = 1
         /\ NothingIssued
    /\ status = "collection_error" => EnsureFailed
    /\ LookupFailed =>
         /\ collection_id = "collection_name"
         /\ status # "collection_error"
         /\ \A f \in files : up[f] # "none"

C14_Witness ==
    /\ LookupFailed
    /\ wf = "exit"
    /\ status = "success"
    /\ Len(upload_stats.uploaded) = Cardinality(FileIds)

\* the create call of create_collection_if_needed failed
C14_WitnessCreateFailed ==
    /\ create_collection_calls > collections_created
    /\ status = "collection_error"

\* a step that is one call of create_collection_if_needed
CollectionCallStep == list_calls' = list_calls + 1 /\ wf = "discover"

\* the list answer of the call made by the step
ListAnswer == list_answers'[Len(list_answers')]

GraphReported == graph_stats # "none" /\ Len(listings) = 2

\* some listing call of create_knowledge_graph had the outcome o
SomeListing(o) == listings[1] = o \/ listings[2] = o

\* C16 as stated: when a listing call of create_knowledge_graph raised the
\* returned status is failed, and the status is created only when neither
\* listing failed. The exception of a listing call is caught next to the
\* call and the listing is counted as empty, so the status stays created.
C16_ListingFailureGivesFailed ==
    GraphReported =>
       /\ SomeListing("raise") => graph_stats = "failed"
       /\ graph_stats = "created" =>
            ~SomeListing("raise") /\ ~SomeListing("unsized")

\* C16 as amended: a listing call that raises is caught and counted as an
\* empty listing, and by itself leaves the status created; the status is
\* failed exactly when an exception escapes the two inner handlers, which
\* here is an answer whose results cannot be counted. In every case
\* create_knowledge_graph returns a dict and the run goes on to report
\* success.
C16_FailedOnlyWhenCountingRaises ==
    GraphReported =>
       /\ graph_stats \in {"created", "failed"}
       /\ graph_stats = "failed" <=> SomeListing("unsized")
       /\ (SomeListing("raise") /\ ~SomeListing("unsized")) =>
            graph_stats = "created"
       /\ wf = "exit"
       /\ status = "success"
       /\ exit_code = 0

C16_Witness ==
    /\ GraphReported
    /\ listings = <<"raise", "raise">>
    /\ graph_stats = "created"
    /\ status = "success"

C16_WitnessFailed ==
    /\ GraphReported
    /\ listings = <<"countable", "unsized">>
    /\ graph_stats = "failed"

\* C17: the process exits with 0 exactly when the status is success, and
\* the status is success exactly when files were found, the collection
\* calls were passed and at least one file is in the uploaded list. A
\* discovery error, no files, a collection error and no uploaded file exit
\* with 1; failed extractions and a failed graph report leave success.
C17_ExitZeroIffSuccess ==
    wf = "exit" =>
       /\ exit_code \in {0, 1}
       /\ exit_code = 0 <=> status = "success"
       /\ status = "success" <=>
            /\ files # {}
            /\ list_calls >= 2
            /\ upload_stats.uploaded # <<>>
       /\ status \in {"success", "error", "no_files_found",
                      "collection_error", "upload_failed"}
       /\ status \in {"error", "no_files_found"} <=>
            (files = {} /\ list_calls = 0 /\ summary = NoSummary)
       /\ status = "upload_failed" <=>
            (Returned /\ upload_stats.uploaded = <<>>)
       /\ (Returned /\ upload_stats.uploaded # <<>>) =>
            graph_stats \in {"created", "failed"}

C17_Witness ==
    /\ wf = "exit"
    /\ status = "success"
    /\ exit_code = 0
    /\ graph_stats = "failed"
    /\ Len(upload_stats.uploaded) = 1
    /\ Len(upload_stats.failed) = 1
    /\ Len(extraction_results.failed) = 1
    /\ extraction_results.successful = <<>>

\* the paths discover_files has to return for the tree: the regular files
\* whose extension is supported in any letter case
Expected ==
    {e.parts : e \in tree} \cap {
    <<<<100>>, <<120, 46, 116, 120, 116>>>>,
    <<<<100, 45, 101>>, <<121, 46, 84, 88, 84>>>>,
    <<<<66, 46, 116, 120, 116>>>>,
    <<<<100, 46, 112, 100, 102>>>>
    }

\* the full path of an entry as one string, the names joined by "/"
RECURSIVE FullPath(_)
FullPath(p) ==
    IF Len(p) = 1 THEN p[1]
    ELSE p[1] \o <<47>> \o FullPath(Tail(p))

\* C18 as stated: discover_files returns exactly the expected paths, each
\* once, in ascending order of the full path read as a string. sorted()
\* compares Path objects name by name, so d/x.txt comes before d-e/y.TXT
\* although "d-e/y.TXT" is the smaller string.
C18_SortedByFullPathString ==
    discovered.returned =>
       /\ {discovered.files[i] : i \in DOMAIN discovered.files} = Expected
       /\ Len(discovered.files) = Cardinality(Expected)
       /\ \A i, j \in DOMAIN discovered.files :
            i < j => NameLess(FullPath(discovered.files[i]),
                              FullPath(discovered.files[j]))

\* C18 as amended: discover_files returns exactly the expected paths, each
\* once, in ascending order of the paths compared name by name (a folder's
\* files before those of a folder whose name extends it), whatever the
\* order in which the tree was walked; a second call over the same tree
\* returns the same list.
C18_SortedByPathNames ==
    discovered.returned =>
       /\ {discovered.files[i] : i \in DOMAIN discovered.files} = Expected
       /\ Len(discovered.files) = Cardinality(Expected)
       /\ \A i, j \in DOMAIN discovered.files :
            i < j => PathLess(discovered.files[i], discovered.files[j])

C18_Witness ==
    /\ discovered.returned
    /\ tree = Entries
    /\ Len(discovered.files) = 4
    /\ discovered.files[2] = <<<<100>>, <<120, 46, 116, 120, 116>>>>
    /\ discovered.files[3] = <<<<100, 45, 101>>, <<121, 46, 84, 88, 84>>>>

\* the run has passed discovery and create_collection_if_needed
Resolved == wf = "resolve"

\* the run has ended and upload_files_concurrently printed its counts
Completed ==
    /\ wf = "exit"
    /\ status \in {"success", "upload_failed"}
    /\ summary.printed

\* C19: a run whose discovery and collection step succeeded always
\* eventually ends with the summary of its upload and extraction counts
\* printed, whatever the services answer for each file.
C19_ResolvedRunCompletes == Resolved ~> Completed

C19_Witness ==
    /\ Completed
    /\ status = "upload_failed"
    /\ files = FileIds
    /\ summary.failed_count = Cardinality(FileIds)
    /\ summary.uploaded_count = 0

\* every call of upload_file and extract_entities that has ended left one
\* result record with a terminal status, and no exception reached
\* run_complete_workflow
CallsEndWithRecord ==
    /\ \A f \in FileIds :
         up[f] = "done" =>
            /\ upload_result[f].upload_status
                 \in {"success", "skipped", "failed"}
            /\ CountIn(upload_stats.uploaded, f)
                 + CountIn(upload_stats.skipped, f)
                 + CountIn(upload_stats.failed, f) = 1
    /\ \A f \in FileIds :
         ext[f] = "done" =>
            /\ CountIn(extraction_results.successful, f)
                 + CountIn(extraction_results.failed, f) = 1
            /\ \A i \in DOMAIN extraction_results.failed :
                 extraction_results.failed[i].extraction_status = "failed"
            /\ \A i \in DOMAIN extraction_results.successful :
                 extraction_results.successful[i].extraction_status = "success"
    /\ ~NothingIssued => status \in {"none", "success", "upload_failed"}

\* C20: upload_file and extract_entities turn every service error into a
\* result record with a terminal status and raise nothing to the
\* orchestrator, and every file whose upload task was created reaches a
\* terminal state whatever happens to the other files.
C20_FailuresAreRecordsAndIsolated ==
    /\ []CallsEndWithRecord
    /\ \A f \in FileIds :
         (up[f] # "none") ~> (FileState(f) \in TerminalStates)

C20_Witness ==
    /\ wf = "exit"
    /\ \E f, g \in FileIds :
         /\ FileState(f) = "UploadFailed"
         /\ create_response[f] = "error"
         /\ FileState(g) = "ExtractionSucceeded"
         /\ ~extract_response[g].raises

\* the number of records about file f in the three lists of upload_stats
UploadRecords(f) ==
    CountIn(upload_stats.uploaded, f) + CountIn(upload_stats.skipped, f)
        + CountIn(upload_stats.failed, f)

\* C21: a file has no record in upload_stats while its upload_file call is
\* running, also between the first documents.create and the retry without
\* collection_ids, and exactly one record, in one list, once the call has
\* ended; the list is the one its outcome names. When
\* upload_files_concurrently returns every discovered file has its record.
C21_EachFileRecordedOnce ==
    /\ \A f \in FileIds :
         /\ up[f] # "done" => UploadRecords(f) = 0
         /\ up[f] = "done" =>
              /\ UploadRecords(f) = 1
              /\ upload_result[f].upload_status = "success" =>
                   CountIn(upload_stats.uploaded, f) = 1
              /\ upload_result[f].upload_status = "skipped" =>
                   CountIn(upload_stats.skipped, f) = 1
              /\ upload_result[f].upload_status = "failed" =>
                   CountIn(upload_stats.failed, f) = 1
    /\ Returned => \A f \in files : UploadRecords(f) = 1

\* both files went through the retry: the deciding answer mentions
\* collection_ids, which a first answer never does
C21_Witness ==
    /\ Returned
    /\ files = FileIds
    /\ \A f \in files :
         MentionsCollectionIds(create_response[f]) /\ UploadRecords(f) = 1
    /\ \E f \in files : CountIn(upload_stats.skipped, f) = 1
    /\ \E f \in files : CountIn(upload_stats.failed, f) = 1

\* the step in which the documents.extract call of file f raises
ExtractionFails(f) ==
    /\ ext[f] = "extract"
    /\ ext'[f] = "done"
    /\ extract_response'[f].raises

\* C22: the step in which an extraction fails leaves upload_stats as it
\* was, with the file's record in the uploaded list, leaves the totals and
\* the successful list of extraction_results as they were, and appends one
\* record with status failed for the file to extraction_results.failed.
C22_FailedExtractionOnlyGrowsFailed ==
    [][\A f \in FileIds :
         ExtractionFails(f) =>
            /\ upload_stats' = upload_stats
            /\ CountIn(upload_stats'.uploaded, f) = 1
            /\ extraction_results'.total_entities
                 = extraction_results.total_entities
            /\ extraction_results'.total_relationships
                 = extraction_results.total_relationships
            /\ extraction_results'.successful = extraction_results.successful
            /\ Len(extraction_results'.failed)
                 = Len(extraction_results.failed) + 1
            /\ SubSeq(extraction_results'.failed, 1,
                      Len(extraction_results.failed))
                 = extraction_results.failed
            /\ LET r == extraction_results'.failed[
                            Len(extraction_results'.failed)]
               IN  /\ r.file_path = f
                   /\ r.extraction_status = "failed"]_vars

\* an extraction failed after another one had added to the totals
C22_Witness ==
    /\ Len(extraction_results.failed) = 1
    /\ Len(extraction_results.successful) = 1
    /\ extraction_results.total_entities > 0
    /\ extraction_results.total_relationships > 0
    /\ extract_response[extraction_results.failed[1].file_path].raises
    /\ CountIn(upload_stats.uploaded, extraction_results.failed[1].file_path) = 1

\* the moves of the per-file state machine
FileMoves ==
    {<<"Discovered", "Uploading">>,
     <<"Uploading", "Skipped">>,
     <<"Uploading", "UploadFailed">>,
     <<"Uploading", "Uploaded">>,
     <<"Uploaded", "Extracting">>,
     <<"Extracting", "ExtractionSucceeded">>,
     <<"Extracting", "ExtractionFailed">>}

\* C23: in every step each file keeps its state or makes one of the moves
\* Discovered -> Uploading -> {Skipped, UploadFailed, Uploaded} ->
\* Extracting -> {ExtractionSucceeded, ExtractionFailed}; Extracting is
\* entered from Uploaded only and a terminal state is never left.
C23_FilesFollowStateMachine ==
    [][\A f \in FileIds :
         LET before == FileState(f)
             after == FileState(f)'
         IN  /\ after # before => <<before, after>> \in FileMoves
             /\ after = "Extracting" => before \in {"Uploaded", "Extracting"}
             /\ before \in TerminalStates => after = before]_vars

\* one file is being extracted after another was skipped for good
C23_Witness ==
    \E f, g \in files :
      /\ FileState(f) = "Extracting"
      /\ FileState(g) = "Skipped"
      /\ MentionsCollectionIds(create_response[g])

\* the number of records about file f in extraction_results
ExtractionRecords(f) ==
    CountIn(extraction_results.successful, f)
        + CountIn(extraction_results.failed, f)

\* a step leaves a request that waits for a permit waiting, or admits it
\* when a permit is free; it gives the file no outcome
WaitingOnlyAdmits ==
    \A f \in FileIds :
      /\ up[f] = "waiting" =>
           /\ up'[f] \in {"waiting", "create"}
           /\ up'[f] = "create" =>
                /\ upload_semaphore > 0
                /\ upload_semaphore' = upload_semaphore - 1
           /\ upload_result'[f] = PendingResult(f)
           /\ UploadRecords(f)' = 0
      /\ ext[f] = "waiting" =>
           /\ ext'[f] \in {"waiting", "extract"}
           /\ ext'[f] = "extract" =>
                /\ extraction_semaphore > 0
                /\ extraction_semaphore' = extraction_semaphore - 1
           /\ ExtractionRecords(f)' = 0

\* C24: an upload or extraction request that finds its semaphore without a
\* free permit waits; while it waits it gets no outcome, it is admitted
\* only when a permit is free, and under fair scheduling it is eventually
\* admitted: a waiting request leaves the wait by admission only, and from
\* some point on no request waits.
C24_WaitingIsAdmitted ==
    /\ [][WaitingOnlyAdmits]_vars
    /\ <>[](\A f \in FileIds : up[f] # "waiting" /\ ext[f] # "waiting")

\* an extraction waits for the only permit, which another extraction
\* holds
C24_Witness ==
    \E f, g \in files :
      /\ ext[f] = "waiting"
      /\ ext[g] = "extract"
      /\ extraction_semaphore = 0
      /\ max_concurrent_uploads = 1

\* the tasks that hold results_lock
LockHolders ==
    {<<"upload", f>> : f \in {g \in FileIds : up[g] = "locked"}}
        \cup {<<"extract", f>> : f \in {g \in FileIds : ext[g] = "locked"}}

\* a step that changes upload_stats or extraction_results is made by the
\* task that holds the lock, and a task that holds the lock does nothing
\* else than its update before it releases the lock
UpdatesUnderLock ==
    /\ upload_stats' # upload_stats =>
         /\ results_lock
         /\ \E f \in FileIds :
              /\ LockHolders = {<<"upload", f>>}
              /\ up'[f] = "done"
              /\ upload_stats' = RecordUpload(upload_stats, upload_result[f])
    /\ extraction_results' # extraction_results =>
         /\ results_lock
         /\ \E f \in FileIds :
              /\ LockHolders = {<<"extract", f>>}
              /\ ext'[f] = "done"
    /\ \A f \in FileIds :
         /\ up[f] = "locked" => up'[f] \in {"locked", "done"}
         /\ ext[f] = "locked" => ext'[f] \in {"locked", "done"}
         /\ (up[f] = "locked" /\ up'[f] = "done") => ~results_lock'
         /\ (ext[f] = "locked" /\ ext'[f] = "done") => ~results_lock'

\* C25: at most one task holds results_lock, the lock is held exactly while
\* a task is between taking it and its update, every change of upload_stats
\* and extraction_results is the update of the task that holds the lock,
\* and the holder issues no service call and waits for no permit before it
\* releases the lock.
C25_UpdatesSerializedByLock ==
    /\ [](Cardinality(LockHolders) <= 1)
    /\ [](results_lock <=> LockHolders # {})
    /\ [][UpdatesUnderLock]_vars

\* one upload holds the lock while another upload waits for it
C25_Witness ==
    \E f, g \in files :
      /\ up[f] = "locked"
      /\ up[g] = "lockwait"
      /\ results_lock
      /\ Len(upload_stats.uploaded) + Len(upload_stats.skipped)
           + Len(upload_stats.failed) = 0

\* a documents.create call has been issued for file f
Issued(f) == up[f] \notin {"none", "new", "waiting"}

\* C26: the collection id is looked up by the one list call
\* upload_files_concurrently makes before it creates the upload tasks; it
\* does not change afterwards, every upload_file task carries it as its
\* collection_id argument, and while the uploads run the run has made two
\* list calls and at most one create call, whatever the number of files.
C26_CollectionIdResolvedOnce ==
    /\ [][(\E f \in FileIds : up[f] # "none") =>
            collection_id' = collection_id /\ destination' = destination]_vars
    /\ [](\A f \in FileIds :
            /\ up[f] # "none" =>
                 /\ destination[f] = collection_id
                 /\ collection_id \in {"id", "collection_name"}
            /\ Issued(f) =>
                 /\ list_calls >= 2
                 /\ wf \in {"uploads", "gather", "summary"} => list_calls = 2
                 /\ create_collection_calls <= 1)

C26_Witness ==
    /\ files = FileIds
    /\ \A f \in files : Issued(f) /\ destination[f] = "id"
    /\ wf = "uploads"
    /\ list_calls = 2

\* C27: the free permits of each semaphore plus the tasks inside its
\* "async with" block make up the configured limit in every state, and when
\* upload_files_concurrently has returned no task is inside and all permits
\* of both semaphores are free, whatever failed.
C27_PermitsNeverLeak ==
    /\ upload_semaphore + Cardinality(UploadsInFlight)
         = max_concurrent_uploads
    /\ extraction_semaphore + Cardinality(ExtractionsInFlight)
         = max_concurrent_extractions
    /\ upload_semaphore >= 0
    /\ extraction_semaphore >= 0
    /\ (Returned \/ wf = "exit") =>
         /\ upload_semaphore = max_concurrent_uploads
         /\ extraction_semaphore = max_concurrent_extractions
         /\ UploadsInFlight = {}
         /\ ExtractionsInFlight = {}

\* the run has ended after a failed upload and a failed extraction
C27_Witness ==
    /\ wf = "exit"
    /\ Returned
    /\ Len(upload_stats.failed) = 1
    /\ Len(extraction_results.failed) = 1
    /\ extract_response[extraction_results.failed[1].file_path].raises
    /\ upload_semaphore = max_concurrent_uploads
    /\ extraction_semaphore = max_concurrent_extractions

\* the user messages of a list that start with "/no_think"
Prefixed(messages) ==
    {i \in DOMAIN messages :
       messages[i].role = "user" /\ StartsWithNoThink(messages[i])}

\* the pre-call hook has run for the call in slot c
HookRan(c) == calls[c].phase \in {"started", "succeeded", "failed"}

\* C28: after log_pre_api_call the first user message of the messages
\* argument of a FAST_LLM call starts with "/no_think". When
\* complete_input_dict is a dict, line 39 rebinds the name messages to the
\* dict's own list, or to [] when it has none, and the loop of lines 61-66
\* never reaches the caller's list.
C28_MainMessagesPrefixed ==
    \A c \in CallSlots :
      (HookRan(c) /\ calls[c].fast) =>
         LET users == {i \in DOMAIN calls[c].messages :
                         calls[c].messages[i].role = "user"}
         IN  users # {} =>
               StartsWithNoThink(
                  calls[c].messages[CHOOSE u \in users :
                                       \A v \in users : u <= v])

\* a step in which the pre-call hook runs again for a call
HookRunsAgain(c) ==
    /\ calls[c].phase = "started"
    /\ calls'[c].pre_calls = calls[c].pre_calls + 1

\* C29: a second run of log_pre_api_call for a call changes no message and
\* no prompt, and of a conversation that came without the prefix at most
\* one user message carries it, once. Each loop passes over the user
\* messages that already start with the prefix and prefixes the next one
\* that does not, so every run of the hook marks one or two more user
\* messages.
C29_HookIsIdempotent ==
    /\ [][\A c \in CallSlots :
            HookRunsAgain(c) =>
               /\ calls'[c].messages = calls[c].messages
               /\ calls'[c].input_messages = calls[c].input_messages
               /\ calls'[c].prompt = calls[c].prompt]_vars
    /\ [](\A c \in CallSlots :
            Prefixed(calls[c].original) = {} =>
               /\ Cardinality(Prefixed(calls[c].messages)) <= 1
               /\ Cardinality(Prefixed(calls[c].input_messages)) <= 1
               /\ \A i \in DOMAIN calls[c].messages :
                    calls[c].messages[i].content <= 1)

\* the calls whose pre-call hook stored their id and whose success or
\* failure hook has not run yet
InFlight ==
    {calls[c].call_id : c \in {s \in CallSlots :
                                 /\ calls[s].phase = "started"
                                 /\ calls[s].fast
                                 /\ calls[s].call_id # NoCallId}}

\* every call that was started has ended
AllEnded ==
    \A c \in CallSlots : calls[c].phase \in {"new", "succeeded", "failed"}

\* C30: fast_llm_requests holds exactly the non-empty ids of the FAST_LLM
\* calls between their pre-call hook and their success or failure hook; it
\* is empty once every started call has ended, and a call of another model
\* group, or one without an id, never adds to it.
C30_RequestsAreTheCallsInFlight ==
    /\ [](fast_llm_requests = InFlight)
    /\ [](AllEnded => fast_llm_requests = {})
    /\ [][\A c \in CallSlots :
            (calls'[c] # calls[c]
               /\ ~(calls[c].fast /\ calls[c].call_id # NoCallId)) =>
               fast_llm_requests' = fast_llm_requests]_vars

\* one FAST_LLM call has ended and left the set while another, started
\* before it ended, is still in it
C30_Witness ==
    \E c, d \in CallSlots :
      /\ calls[c].fast /\ calls[c].call_id # NoCallId
      /\ calls[c].phase \in {"succeeded", "failed"}
      /\ calls[c].call_id \notin fast_llm_requests
      /\ calls[d].fast /\ calls[d].phase = "started"
      /\ calls[d].call_id \in fast_llm_requests

====
